---------------------------- MODULE Spec2Model ----------------------------
(***************************************************************************)
(* Progression engine of the treasure hunt game: the useGameState hook    *)
(* (player, treasure boxes, question modal, attempts), its six public     *)
(* operations, and the two localStorage effects that run after a render.  *)
(*                                                                         *)
(* Box identifiers `box_<n>` are modelled by the number n.  A box list is *)
(* a sequence (JS index i is position i + 1), and findIndex returns 0     *)
(* where the JS code returns -1.                                          *)
(* Box positions are left out: no operation of the hook reads them.      *)
(* The sampler's random choice is left out too: a game's questions are    *)
(* the first ones of each tier of the catalog.                            *)
(***************************************************************************)
EXTENDS Integers, Sequences, FiniteSets, TLC

VARIABLES
  gameState,   \* the hook's state object (useState<GameState>)
  storage,     \* localStorage entry 'treasureHuntSave': <<>> or <<saveData>>
  clock,       \* Date.now(), in hours since the first session began
  pc,          \* "mount": first render done, effects pending; "load": save
               \* effect has run, load effect pending; "run": handling events;
               \* "crashed": an error thrown while rendering took the app down
  startupEntry,\* history: the localStorage entry as the page load found it,
               \* kept until the startup effects have run (<<>> afterwards)
  positions,   \* the positions array of a createTreasureBoxes call in
               \* progress (<<>> when none is followed step by step)
  showExplanation, \* QuestionModal's local state: an answer has been
               \* submitted and its result is on display
  timers,      \* the pending setTimeout callbacks of QuestionModal, in the
               \* order they fire (all delays are 2500 ms)
  canvas       \* GameCanvas: the box list its mount effect closed over, its
               \* nearTreasure state and the 'e' entry of keysRef

\* The variables outside the hook's state, and their values while only the
\* hook is followed.
outside == <<positions, showExplanation, timers, canvas>>
OutsideIdle ==
  /\ positions = <<>>
  /\ showExplanation = FALSE
  /\ timers = <<>>
  /\ canvas = <<>>

vars == <<gameState, storage, clock, pc, startupEntry, positions,
          showExplanation, timers, canvas>>

----------------------------------------------------------------------------
(* Bounds of the model *)

\* Largest coordinate a move event carries (the canvas clamps to [-220, 220]).
MaxCoord == 1
\* Largest option index a submitted answer carries.
MaxAnswerIndex == 1
\* Once a game has left regular progress (a second pending box, or a repeated
\* entry in completedBoxes), answers are followed while completedBoxes is
\* shorter than this.
MaxReplayDepth == 3
\* The clock stops advancing at this many hours.
MaxClock == 24
\* Longest question list handed to createTreasureBoxes in SpecBoxes.
MaxQuestions == 3
\* The player is followed to the spots up to this many units east or west
\* of a box.
MaxStep == 8

\* The positions move events carry: (x, y) with y = -x.
MoveTargets == {<<c, 0 - c>> : c \in {0, MaxCoord}}
AnswerIndexes == 0 .. MaxAnswerIndex
Difficulties == {"easy", "medium", "hard"}

----------------------------------------------------------------------------
(* Program constants *)

EasyQuota == 4
MediumQuota == 3
HardQuota == 2
maxAttempts == 3
SaveMaxAgeHours == 24
\* The time between two sessions after which a save has expired.
TickHours == SaveMaxAgeHours

----------------------------------------------------------------------------
(* Questions *)

\* `null` for GameState.currentQuestion; no catalog question has id 0.
NullQuestion == [id |-> 0, difficulty |-> "none", correctAnswer |-> -1]

\* The static catalog (data/questions): identifier, tier, correct option.
QuestionCatalog ==
  << [id |-> 1, difficulty |-> "easy",   correctAnswer |-> 0],
     [id |-> 2, difficulty |-> "easy",   correctAnswer |-> 1],
     [id |-> 3, difficulty |-> "easy",   correctAnswer |-> 0],
     [id |-> 4, difficulty |-> "easy",   correctAnswer |-> 1],
     [id |-> 5, difficulty |-> "medium", correctAnswer |-> 0],
     [id |-> 6, difficulty |-> "medium", correctAnswer |-> 1],
     [id |-> 7, difficulty |-> "medium", correctAnswer |-> 0],
     [id |-> 8, difficulty |-> "hard",   correctAnswer |-> 1],
     [id |-> 9, difficulty |-> "hard",   correctAnswer |-> 0] >>

RECURSIVE FilterSeq(_, _)
\* Array.prototype.filter for the tier test used by the sampler.
FilterSeq(s, d) ==
  IF s = <<>> THEN <<>>
  ELSE IF Head(s).difficulty = d
       THEN <<Head(s)>> \o FilterSeq(Tail(s), d)
       ELSE FilterSeq(Tail(s), d)

\* Up to `count` questions of tier `difficulty` from the catalog.
getQuestionsByDifficulty(difficulty, count) ==
  LET tier == FilterSeq(QuestionCatalog, difficulty)
  IN  SubSeq(tier, 1, IF Len(tier) < count THEN Len(tier) ELSE count)

\* The list both the state initializer and resetGame pass on.
allQuestions ==
  getQuestionsByDifficulty("easy", EasyQuota)
    \o getQuestionsByDifficulty("medium", MediumQuota)
    \o getQuestionsByDifficulty("hard", HardQuota)

----------------------------------------------------------------------------
(* createTreasureBoxes and the reward tables *)

difficultyOrder(d) ==
  CASE d = "easy" -> 0
    [] d = "medium" -> 1
    [] OTHER -> 2

RECURSIVE InsertSorted(_, _)
\* Stable insertion of q behind every element that does not sort after it.
InsertSorted(q, s) ==
  IF s = <<>> THEN <<q>>
  ELSE IF difficultyOrder(Head(s).difficulty) - difficultyOrder(q.difficulty) <= 0
       THEN <<Head(s)>> \o InsertSorted(q, Tail(s))
       ELSE <<q>> \o s

\* Variant: the list is used in the order given.
sortedQuestions_unsorted(questions) == questions

RECURSIVE sortedQuestions(_)
\* [...questions].sort(by difficultyOrder): Array.prototype.sort is stable.
sortedQuestions(questions) ==
  IF questions = <<>> THEN <<>>
  ELSE InsertSorted(questions[Len(questions)],
                    sortedQuestions(SubSeq(questions, 1, Len(questions) - 1)))

getCoinsForDifficulty(difficulty) ==
  CASE difficulty = "easy" -> 50
    [] difficulty = "medium" -> 100
    [] difficulty = "hard" -> 200
    [] OTHER -> 50

getXPForDifficulty(difficulty) ==
  CASE difficulty = "easy" -> 75
    [] difficulty = "medium" -> 150
    [] difficulty = "hard" -> 300
    [] OTHER -> 75

\* Variant: the levels above the first start one lower.
calculateLevel_offByOne(xp) ==
  IF xp < 500 THEN 1 ELSE ((xp - 500) \div 750) + 1

\* Variant: Math.round in the place of Math.floor.
calculateLevel_round(xp) ==
  IF xp < 500 THEN 1 ELSE ((((xp - 500) * 2) + 750) \div 1500) + 2

\* Boxes in difficulty order; only the first is unlocked.  JS index = i - 1.
createTreasureBoxes(questions) ==
  LET sorted == sortedQuestions(questions)
  IN  [i \in 1 .. Len(sorted) |->
        [id          |-> i,
         question    |-> sorted[i],
         isUnlocked  |-> (i - 1 = 0),
         isCompleted |-> FALSE,
         coins       |-> getCoinsForDifficulty(sorted[i].difficulty) + ((i - 1) * 25)]]

calculateLevel(xp) ==
  IF xp < 500 THEN 1 ELSE ((xp - 500) \div 750) + 2

getXPRequiredForNextLevel(currentLevel) ==
  IF currentLevel = 1 THEN 500 ELSE 500 + ((currentLevel - 1) * 750)

\* Variant: rounds up instead of down.
FloorTimes15_ceil(n) == ((n * 15) + 9) \div 10

\* Math.floor(n * 1.5) and Math.floor(n * 0.3) on the integers of the tables.
FloorTimes15(n) == (n * 15) \div 10
FloorTimes03(n) == (n * 3) \div 10

INITIAL_PLAYER ==
  [x |-> 0, y |-> 0, coins |-> 0, xp |-> 0, level |-> 1, completedBoxes |-> <<>>]

\* The state built around a box list by the useState initializer and resetGame.
GameStateWith(treasureBoxes) ==
  [player              |-> INITIAL_PLAYER,
   treasureBoxes       |-> treasureBoxes,
   currentEnvironment  |-> "jungle",
   isQuestionModalOpen |-> FALSE,
   currentQuestion     |-> NullQuestion,
   attempts            |-> 0,
   hintsEnabled        |-> TRUE]

\* The state both the useState initializer and resetGame build.
InitialGameState == GameStateWith(createTreasureBoxes(allQuestions))

\* Variant: the progress of every level is counted from the start of level 2.
getProgressInfo_fromLevelTwo(state) ==
  LET currentLevel == state.player.level
      currentXP == state.player.xp
      xpProgress == IF currentLevel = 1 THEN currentXP ELSE currentXP - 500
      xpNeeded == IF currentLevel = 1 THEN 500 ELSE 750
  IN  [currentLevel       |-> currentLevel,
       currentXP          |-> currentXP,
       xpForNextLevel     |-> getXPRequiredForNextLevel(currentLevel),
       xpProgress         |-> xpProgress,
       xpNeeded           |-> xpNeeded,
       progressPercentage |-> (xpProgress * 100) \div xpNeeded]

\* progressPercentage is kept as the whole part of (xpProgress / xpNeeded) * 100,
\* which is 100 or more exactly when the quotient is.
getProgressInfo(state) ==
  LET currentLevel == state.player.level
      currentXP == state.player.xp
      xpProgress == IF currentLevel = 1 THEN currentXP
                    ELSE currentXP - (500 + ((currentLevel - 2) * 750))
      xpNeeded == IF currentLevel = 1 THEN 500 ELSE 750
  IN  [currentLevel       |-> currentLevel,
       currentXP          |-> currentXP,
       xpForNextLevel     |-> getXPRequiredForNextLevel(currentLevel),
       xpProgress         |-> xpProgress,
       xpNeeded           |-> xpNeeded,
       progressPercentage |-> (xpProgress * 100) \div xpNeeded]

\* progressInfo.progressPercentage >= 100 (the second overlay of App also
\* asks for a box that is not completed).
levelUpShown(state) ==
  getProgressInfo(state).progressPercentage >= 100

----------------------------------------------------------------------------
(* Array helpers *)

\* findIndex over the index set `matches`: the least index, 0 when none.
FindIndex(matches) ==
  IF matches = {} THEN 0
  ELSE CHOOSE i \in matches : \A j \in matches : i <= j

\* ids.includes(id) for an array of ids.
Includes(ids, id) == \E k \in 1 .. Len(ids) : ids[k] = id

RECURSIVE FilterIds(_, _)
\* boxes.filter(box => box[flag]).map(box => box.id), with flag a field name.
FilterIds(boxes, flag) ==
  IF boxes = <<>> THEN <<>>
  ELSE IF Head(boxes)[flag]
       THEN <<Head(boxes).id>> \o FilterIds(Tail(boxes), flag)
       ELSE FilterIds(Tail(boxes), flag)

----------------------------------------------------------------------------
(* The state updater of answerQuestion *)

\* Variant: the attempts are exhausted one answer late.
isTerminal_late(isCorrect, newAttempts) == isCorrect \/ newAttempts > maxAttempts

\* isCorrect || newAttempts >= maxAttempts
isTerminal(isCorrect, newAttempts) == isCorrect \/ newAttempts >= maxAttempts

\* prev.treasureBoxes.find(box => box.question.id === prev.currentQuestion?.id)
currentBoxIndex(prev) ==
  FindIndex({i \in DOMAIN prev.treasureBoxes :
               prev.treasureBoxes[i].question.id = prev.currentQuestion.id})

\* Variant: the open question's box gets isCompleted assigned from the answer.
updatedBoxes_assign(prev, isCorrect, newAttempts) ==
  [i \in DOMAIN prev.treasureBoxes |->
     IF prev.treasureBoxes[i].question.id = prev.currentQuestion.id
     THEN [prev.treasureBoxes[i] EXCEPT !.isCompleted = isCorrect \/ newAttempts >= maxAttempts]
     ELSE prev.treasureBoxes[i]]

\* The first map: the open question's box becomes completed on a terminal answer.
updatedBoxes(prev, isCorrect, newAttempts) ==
  [i \in DOMAIN prev.treasureBoxes |->
     IF /\ prev.treasureBoxes[i].question.id = prev.currentQuestion.id
        /\ isTerminal(isCorrect, newAttempts)
     THEN [prev.treasureBoxes[i] EXCEPT !.isCompleted = TRUE]
     ELSE prev.treasureBoxes[i]]

\* Variant: the scan does not test isCompleted.
completedBoxIndex_anyMatch(boxes, questionId) ==
  FindIndex({i \in DOMAIN boxes : boxes[i].question.id = questionId})

\* updatedBoxes.findIndex(box => box.question.id === id && box.isCompleted)
completedBoxIndex(boxes, questionId) ==
  FindIndex({i \in DOMAIN boxes :
               boxes[i].question.id = questionId /\ boxes[i].isCompleted})

\* The scan for a locked box of the same or the next difficulty behind `completed`.
nextBoxIndex(boxes, completed, currentDifficulty) ==
  FindIndex({i \in DOMAIN boxes :
               /\ i > completed
               /\ ~boxes[i].isUnlocked
               /\ \/ boxes[i].question.difficulty = currentDifficulty
                  \/ (currentDifficulty = "easy" /\ boxes[i].question.difficulty = "medium")
                  \/ (currentDifficulty = "medium" /\ boxes[i].question.difficulty = "hard")})

\* The fallback scan: any locked box behind `completed`.
anyNextBox(boxes, completed) ==
  FindIndex({i \in DOMAIN boxes : i > completed /\ ~boxes[i].isUnlocked})

\* Variant: every locked box behind the completed one is unlocked.
unlockNext_all(boxes, currentQuestion) ==
  LET completed == FindIndex({i \in DOMAIN boxes :
                     boxes[i].question.id = currentQuestion.id /\ boxes[i].isCompleted})
  IN  IF completed = 0 THEN boxes
      ELSE [i \in DOMAIN boxes |->
              IF i > completed THEN [boxes[i] EXCEPT !.isUnlocked = TRUE] ELSE boxes[i]]

\* Variant: only a locked box of the same difficulty is unlocked.
unlockNext_sameTier(boxes, currentQuestion) ==
  LET completed == completedBoxIndex(boxes, currentQuestion.id)
      next == FindIndex({i \in DOMAIN boxes :
                 /\ i > completed
                 /\ ~boxes[i].isUnlocked
                 /\ boxes[i].question.difficulty = currentQuestion.difficulty})
  IN  IF completed = 0 \/ next = 0 THEN boxes
      ELSE [boxes EXCEPT ![next].isUnlocked = TRUE]

\* The box list after the unlock step (lines 348-374).
unlockNext(boxes, currentQuestion) ==
  LET completed == completedBoxIndex(boxes, currentQuestion.id)
      next      == nextBoxIndex(boxes, completed, currentQuestion.difficulty)
      anyNext   == anyNextBox(boxes, completed)
  IN  IF completed = 0 THEN boxes
      ELSE IF next # 0 THEN [boxes EXCEPT ![next].isUnlocked = TRUE]
      ELSE IF anyNext # 0 THEN [boxes EXCEPT ![anyNext].isUnlocked = TRUE]
      ELSE boxes

\* coinsEarned before the level-up bonus.
coinsEarned(difficulty, isCorrect, newAttempts) ==
  IF isCorrect
  THEN IF newAttempts = 1
       THEN FloorTimes15(getCoinsForDifficulty(difficulty))
       ELSE getCoinsForDifficulty(difficulty)
  ELSE IF newAttempts >= maxAttempts
       THEN FloorTimes03(getCoinsForDifficulty(difficulty))
       ELSE 0

xpEarned(difficulty, isCorrect, newAttempts) ==
  IF isCorrect
  THEN IF newAttempts = 1
       THEN FloorTimes15(getXPForDifficulty(difficulty))
       ELSE getXPForDifficulty(difficulty)
  ELSE IF newAttempts >= maxAttempts
       THEN FloorTimes03(getXPForDifficulty(difficulty))
       ELSE 0

\* Variant: only a correct answer appends the identifier.
appendCompleted_correctOnly(completedBoxes, boxId, isCorrect, newAttempts) ==
  IF isCorrect THEN Append(completedBoxes, boxId) ELSE completedBoxes

\* The player's completedBoxes array after the answer.
appendCompleted(completedBoxes, boxId, isCorrect, newAttempts) ==
  IF isTerminal(isCorrect, newAttempts)
  THEN Append(completedBoxes, boxId)
  ELSE completedBoxes

\* Variant: the bonus is a hundred coins per level the player had.
levelUpBonus_prevLevel(newLevel, prevLevel) ==
  IF newLevel > prevLevel THEN prevLevel * 100 ELSE 0

\* Bonus coins for leveling up.
levelUpBonus(newLevel, prevLevel) ==
  IF newLevel > prevLevel THEN newLevel * 100 ELSE 0

\* Variant: a correct answer pays the coins stored on the box.
answerUpdater_paysStored(prev, isCorrect, newAttempts) ==
  LET current == currentBoxIndex(prev) IN
  IF current = 0 THEN prev
  ELSE
    LET difficulty == prev.currentQuestion.difficulty
        boxes   == unlockNext(updatedBoxes(prev, isCorrect, newAttempts),
                              prev.currentQuestion)
        earned  == IF isCorrect THEN prev.treasureBoxes[current].coins
                   ELSE coinsEarned(difficulty, isCorrect, newAttempts)
        newXP   == prev.player.xp + xpEarned(difficulty, isCorrect, newAttempts)
        newLevel == calculateLevel(newXP)
        coins   == earned + levelUpBonus(newLevel, prev.player.level)
    IN  [prev EXCEPT
           !.treasureBoxes = boxes,
           !.attempts = newAttempts,
           !.player = [prev.player EXCEPT
                         !.coins = prev.player.coins + coins,
                         !.xp = newXP,
                         !.level = newLevel,
                         !.completedBoxes =
                            appendCompleted(prev.player.completedBoxes,
                                            prev.treasureBoxes[current].id,
                                            isCorrect, newAttempts)]]

\* The function answerQuestion hands to setGameState, applied to `prev`.
answerUpdater(prev, isCorrect, newAttempts) ==
  LET current == currentBoxIndex(prev) IN
  IF current = 0 THEN prev
  ELSE
    LET difficulty == prev.currentQuestion.difficulty
        boxes   == unlockNext(updatedBoxes(prev, isCorrect, newAttempts),
                              prev.currentQuestion)
        earned  == coinsEarned(difficulty, isCorrect, newAttempts)
        newXP   == prev.player.xp + xpEarned(difficulty, isCorrect, newAttempts)
        newLevel == calculateLevel(newXP)
        coins   == earned + levelUpBonus(newLevel, prev.player.level)
    IN  [prev EXCEPT
           !.treasureBoxes = boxes,
           !.attempts = newAttempts,
           !.player = [prev.player EXCEPT
                         !.coins = prev.player.coins + coins,
                         !.xp = newXP,
                         !.level = newLevel,
                         !.completedBoxes =
                            appendCompleted(prev.player.completedBoxes,
                                            prev.treasureBoxes[current].id,
                                            isCorrect, newAttempts)]]

\* The state object `prev` as a call of the updater leaves it.  The map of
\* line 339 makes a new object for the current box only; every other box of
\* updatedBoxes is the object of prev.treasureBoxes itself, and the
\* assignments of lines 364 and 371 write isUnlocked into it.
prevAfterUpdater(prev, isCorrect, newAttempts) ==
  LET current == currentBoxIndex(prev) IN
  IF current = 0 THEN prev
  ELSE
    LET boxes == unlockNext(updatedBoxes(prev, isCorrect, newAttempts),
                            prev.currentQuestion)
    IN  [prev EXCEPT !.treasureBoxes =
           [i \in DOMAIN prev.treasureBoxes |->
              IF i = current THEN prev.treasureBoxes[i] ELSE boxes[i]]]

----------------------------------------------------------------------------
(* The localStorage effects *)

\* Variant: both lists are filtered by isCompleted.
saveData_completedTwice(state, now) ==
  [player         |-> state.player,
   completedBoxes |-> FilterIds(state.treasureBoxes, "isCompleted"),
   unlockedBoxes  |-> FilterIds(state.treasureBoxes, "isCompleted"),
   level          |-> state.player.level,
   timestamp      |-> now]

\* The record the save effect writes (JSON.stringify keeps all of its fields).
saveData(state, now) ==
  [player         |-> state.player,
   completedBoxes |-> FilterIds(state.treasureBoxes, "isCompleted"),
   unlockedBoxes  |-> FilterIds(state.treasureBoxes, "isUnlocked"),
   level          |-> state.player.level,
   timestamp      |-> now]

\* The save effect: runs after every render that follows a new state object.
saveEffect(state, now) == <<saveData(state, now)>>

\* Variant: the two lists of the save are taken for each other.
loadUpdater_listsSwapped(prev, parsed) ==
  [prev EXCEPT
     !.player = IF "player" \in DOMAIN parsed THEN parsed.player ELSE prev.player,
     !.treasureBoxes =
        [i \in DOMAIN prev.treasureBoxes |->
           [prev.treasureBoxes[i] EXCEPT
              !.isCompleted = Includes(parsed.unlockedBoxes, prev.treasureBoxes[i].id),
              !.isUnlocked  = Includes(parsed.completedBoxes, prev.treasureBoxes[i].id)]]]

\* The updater of the load effect: player and box flags from the parsed save
\* (a save holds all fields of the player or none: {...prev.player, ...parsed.player}).
loadUpdater(prev, parsed) ==
  [prev EXCEPT
     !.player = IF "player" \in DOMAIN parsed THEN parsed.player ELSE prev.player,
     !.treasureBoxes =
        [i \in DOMAIN prev.treasureBoxes |->
           [prev.treasureBoxes[i] EXCEPT
              !.isCompleted = Includes(parsed.completedBoxes, prev.treasureBoxes[i].id),
              !.isUnlocked  = Includes(parsed.unlockedBoxes, prev.treasureBoxes[i].id)]]]

\* Only load if save is less than 24 hours old.
saveIsFresh(parsed, now) == now - parsed.timestamp < SaveMaxAgeHours

\* Entries the hook did not write.  An entry is the record JSON.parse makes
\* of the stored text; a text that is no JSON and the text "null" are records
\* of one field of their own.
NotJSON == [syntaxError |-> TRUE]
JSONNull == [null |-> TRUE]

\* What the page load can find under 'treasureHuntSave' in the first session:
\* nothing, a text that is no JSON, null, a save without timestamp, a fresh
\* save without the two lists, a fresh save whose level does not fit its xp,
\* and a complete save that is 24 hours old.
StartupEntries ==
  LET complete == saveData(InitialGameState, 0) IN
  { <<>>,
    <<NotJSON>>,
    <<JSONNull>>,
    <<[player |-> INITIAL_PLAYER, completedBoxes |-> <<1>>,
       unlockedBoxes |-> <<1, 2>>, level |-> 1]>>,
    <<[player |-> INITIAL_PLAYER, level |-> 1, timestamp |-> 0]>>,
    <<[complete EXCEPT !.player.level = 3, !.level = 3,
                       !.completedBoxes = <<1>>, !.unlockedBoxes = <<1, 2>>]>>,
    <<[complete EXCEPT !.completedBoxes = <<1>>, !.unlockedBoxes = <<1, 2>>,
                       !.timestamp = 0 - SaveMaxAgeHours]>> }

\* The load effect on the entry `stored`: the state it leaves, whether it
\* called setGameState, and the error if any.  "caught": thrown inside the
\* try block and logged; "uncaught": thrown by the updater while React
\* renders, outside the try block.
loadOutcome(prev, stored, now) ==
  LET ignored == [state |-> prev, loaded |-> FALSE, error |-> "none"]
      parsed  == stored[1]
  IN  IF stored = <<>> THEN ignored
      ELSE IF "syntaxError" \in DOMAIN parsed
             THEN [ignored EXCEPT !.error = "caught"]    \* JSON.parse throws
      ELSE IF "null" \in DOMAIN parsed
             THEN [ignored EXCEPT !.error = "caught"]    \* null.timestamp
      ELSE IF "timestamp" \notin DOMAIN parsed
             THEN ignored                                \* NaN < ... is false
      ELSE IF ~saveIsFresh(parsed, now) THEN ignored
      ELSE IF {"completedBoxes", "unlockedBoxes"} \subseteq DOMAIN parsed
             THEN [state |-> loadUpdater(prev, parsed), loaded |-> TRUE,
                   error |-> "none"]
      ELSE [ignored EXCEPT !.error = "uncaught"]         \* undefined.includes

----------------------------------------------------------------------------
(* Next-state functions of the event handlers *)

movePlayerResult(prev, x, y) ==
  [prev EXCEPT !.player = [prev.player EXCEPT !.x = x, !.y = y]]

\* Variant: a completed box can be opened again.
canInteract_ignoreCompleted(state, boxId) ==
  LET i == FindIndex({j \in DOMAIN state.treasureBoxes :
                        state.treasureBoxes[j].id = boxId})
  IN  /\ i \in DOMAIN state.treasureBoxes
      /\ state.treasureBoxes[i].isUnlocked

\* The guard of interactWithTreasureBox: the box exists, unlocked, not completed.
canInteract(state, boxId) ==
  LET i == FindIndex({j \in DOMAIN state.treasureBoxes :
                        state.treasureBoxes[j].id = boxId})
  IN  /\ i \in DOMAIN state.treasureBoxes
      /\ state.treasureBoxes[i].isUnlocked
      /\ ~state.treasureBoxes[i].isCompleted

\* Variant: opening a box keeps the attempts counted so far.
interactResult_keepAttempts(state, boxId) ==
  IF canInteract(state, boxId)
  THEN [state EXCEPT
          !.isQuestionModalOpen = TRUE,
          !.currentQuestion =
             state.treasureBoxes[FindIndex({j \in DOMAIN state.treasureBoxes :
                                   state.treasureBoxes[j].id = boxId})].question]
  ELSE state

interactResult(state, boxId) ==
  IF canInteract(state, boxId)
  THEN [state EXCEPT
          !.isQuestionModalOpen = TRUE,
          !.currentQuestion =
             state.treasureBoxes[FindIndex({j \in DOMAIN state.treasureBoxes :
                                   state.treasureBoxes[j].id = boxId})].question,
          !.attempts = 0]
  ELSE state

\* Variant: the attempt is counted before the open question is looked for.
answerResult_countsAlways(state, answerIndex) ==
  IF state.currentQuestion = NullQuestion
  THEN [state EXCEPT !.attempts = state.attempts + 1]
  ELSE answerUpdater(state,
                     answerIndex = state.currentQuestion.correctAnswer,
                     state.attempts + 1)

\* answerQuestion run in the render that shows `state` (its closure) and
\* applied to the same state (events are handled one at a time).
answerResult(state, answerIndex) ==
  IF state.currentQuestion = NullQuestion THEN state
  ELSE answerUpdater(state,
                     answerIndex = state.currentQuestion.correctAnswer,
                     state.attempts + 1)

closeResult(prev) ==
  [prev EXCEPT
     !.isQuestionModalOpen = FALSE,
     !.currentQuestion = NullQuestion,
     !.attempts = 0]

toggleHintsResult(prev) == [prev EXCEPT !.hintsEnabled = ~prev.hintsEnabled]

----------------------------------------------------------------------------
(* Actions *)

\* Regular progress: at most one box is pending (unlocked, not completed) and
\* completedBoxes holds no identifier twice.
regularProgress(state) ==
  LET boxes == state.treasureBoxes
      done  == state.player.completedBoxes
  IN  /\ Cardinality({i \in DOMAIN boxes :
                         boxes[i].isUnlocked /\ ~boxes[i].isCompleted}) <= 1
      /\ \A j, k \in 1 .. Len(done) : done[j] = done[k] => j = k

Init ==
  /\ gameState = InitialGameState
  /\ storage \in StartupEntries
  /\ clock = 0
  /\ pc = "mount"
  /\ startupEntry = storage
  /\ OutsideIdle

\* First pass of the save effect, declared before the load effect.
SaveEffectOnMount ==
  /\ pc = "mount"
  /\ storage' = saveEffect(gameState, clock)
  /\ pc' = "load"
  /\ UNCHANGED <<gameState, clock, startupEntry>>
  /\ UNCHANGED outside

\* The load effect, and the render and save effect its setGameState causes.
LoadEffect ==
  /\ pc = "load"
  /\ LET outcome == loadOutcome(gameState, storage, clock) IN
       /\ pc' = IF outcome.error = "uncaught" THEN "crashed" ELSE "run"
       /\ gameState' = outcome.state
       /\ storage' = IF outcome.loaded THEN saveEffect(gameState', clock)
                                       ELSE storage
  /\ startupEntry' = <<>>
  /\ UNCHANGED clock
  /\ UNCHANGED outside

MovePlayer(x, y) ==
  /\ pc = "run"
  /\ gameState' = movePlayerResult(gameState, x, y)
  /\ storage' = saveEffect(gameState', clock)
  /\ UNCHANGED <<clock, pc, startupEntry>>
  /\ UNCHANGED outside

InteractWithTreasureBox(boxId) ==
  /\ pc = "run"
  /\ IF canInteract(gameState, boxId)
     THEN /\ gameState' = interactResult(gameState, boxId)
          /\ storage' = saveEffect(gameState', clock)
     ELSE UNCHANGED <<gameState, storage>>
  /\ UNCHANGED <<clock, pc, startupEntry>>
  /\ UNCHANGED outside

AnswerQuestion(answerIndex) ==
  /\ pc = "run"
  /\ \/ regularProgress(gameState)
     \/ Len(gameState.player.completedBoxes) < MaxReplayDepth
  /\ IF gameState.currentQuestion = NullQuestion
     THEN UNCHANGED <<gameState, storage>>
     ELSE /\ gameState' = answerResult(gameState, answerIndex)
          /\ storage' = saveEffect(gameState', clock)
  /\ UNCHANGED <<clock, pc, startupEntry>>
  /\ UNCHANGED outside

CloseQuestionModal ==
  /\ pc = "run"
  /\ gameState' = closeResult(gameState)
  /\ storage' = saveEffect(gameState', clock)
  /\ UNCHANGED <<clock, pc, startupEntry>>
  /\ UNCHANGED outside

ToggleHints ==
  /\ pc = "run"
  /\ gameState' = toggleHintsResult(gameState)
  /\ storage' = saveEffect(gameState', clock)
  /\ UNCHANGED <<clock, pc, startupEntry>>
  /\ UNCHANGED outside

\* localStorage.removeItem('treasureHuntSave').
removeItem(stored) == <<>>

\* The entry after a render that follows a write to it by a handler: the
\* save effect of the render runs last and replaces whatever is stored.
saveAfter(stored, state, now) == saveEffect(state, now)

\* Variant: the new player and boxes are spread over the previous state.
resetResult_overPrevious ==
  [gameState EXCEPT !.player = INITIAL_PLAYER,
                    !.treasureBoxes = createTreasureBoxes(allQuestions)]

\* The game state resetGame sets: the player's defaults, new boxes of the
\* same questions, the modal closed, hints on.
resetResult ==
  InitialGameState

\* setGameState(fresh state) is queued; localStorage.removeItem runs in the
\* handler; then the render runs the save effect on the fresh state.
ResetGame ==
  /\ pc = "run"
  /\ gameState' = resetResult
  /\ storage' = saveAfter(removeItem(storage), gameState', clock)
  /\ UNCHANGED <<clock, pc, startupEntry>>
  /\ UNCHANGED outside

\* The page is loaded again after `elapsed` hours: a new hook instance, the
\* same localStorage.  (Time is advanced between sessions only.)
Reload(elapsed) ==
  /\ pc = "run"
  /\ clock + elapsed <= MaxClock
  /\ clock' = clock + elapsed
  /\ gameState' = InitialGameState
  /\ pc' = "mount"
  /\ startupEntry' = storage
  /\ UNCHANGED storage
  /\ UNCHANGED outside

\* The identifiers interact events carry: every box, and one that is none.
BoxIds == 1 .. (EasyQuota + MediumQuota + HardQuota + 1)

Next ==
  \/ SaveEffectOnMount
  \/ LoadEffect
  \/ \E target \in MoveTargets : MovePlayer(target[1], target[2])
  \/ \E boxId \in BoxIds : InteractWithTreasureBox(boxId)
  \/ \E answerIndex \in AnswerIndexes : AnswerQuestion(answerIndex)
  \/ CloseQuestionModal
  \/ ToggleHints
  \/ ResetGame
  \/ \E elapsed \in {0, TickHours} : Reload(elapsed)

Spec == Init /\ [][Next]_vars

----------------------------------------------------------------------------
(* createTreasureBoxes on every short question list *)

\* Question lists of every order and tier mix, ids by position.
QuestionLists ==
  UNION {[1 .. n -> Difficulties] : n \in 1 .. MaxQuestions}

QuestionsOf(tiers) ==
  [k \in DOMAIN tiers |-> [id |-> k, difficulty |-> tiers[k], correctAnswer |-> 0]]

InitBoxes ==
  /\ \E tiers \in QuestionLists :
        gameState = GameStateWith(createTreasureBoxes(QuestionsOf(tiers)))
  /\ storage = <<>>
  /\ clock = 0
  /\ pc = "mount"
  /\ startupEntry = <<>>
  /\ OutsideIdle

NextBoxes ==
  \/ SaveEffectOnMount
  \/ LoadEffect
  \/ \E boxId \in BoxIds : InteractWithTreasureBox(boxId)
  \/ \E answerIndex \in AnswerIndexes : AnswerQuestion(answerIndex)
  \/ CloseQuestionModal

SpecBoxes == InitBoxes /\ [][NextBoxes]_vars

----------------------------------------------------------------------------
(* Vocabulary of the properties *)

player == gameState.player
boxes == gameState.treasureBoxes
QuestionOpen == gameState.currentQuestion # NullQuestion

\* Index of the box that holds the open question (0: no question is open).
OpenBox ==
  FindIndex({i \in DOMAIN boxes : boxes[i].question.id = gameState.currentQuestion.id})

\* The base reward table as the specification states it.
BaseCoins(d) == CASE d = "easy" -> 50 [] d = "medium" -> 100 [] d = "hard" -> 200
BaseXP(d) == CASE d = "easy" -> 75 [] d = "medium" -> 150 [] d = "hard" -> 300
FirstTryCoins(d) == CASE d = "easy" -> 75 [] d = "medium" -> 150 [] d = "hard" -> 300
FirstTryXP(d) == CASE d = "easy" -> 112 [] d = "medium" -> 225 [] d = "hard" -> 450
ConsolationCoins(d) == CASE d = "easy" -> 15 [] d = "medium" -> 30 [] d = "hard" -> 60
ConsolationXP(d) == CASE d = "easy" -> 22 [] d = "medium" -> 45 [] d = "hard" -> 90

\* The level-up bonus a step pays.
LevelUpBonus ==
  IF player.level' > player.level THEN player.level' * 100 ELSE 0

\* The step submits option a for the open question.  (The test of the attempt
\* counter, which every such step passes, is there to be evaluated first.)
Submits(a) ==
  /\ QuestionOpen
  /\ gameState.attempts' = gameState.attempts + 1
  /\ AnswerQuestion(a)
IsCorrect(a) == a = gameState.currentQuestion.correctAnswer

\* Boxes whose isUnlocked goes from false to true in the step.
NewlyUnlocked ==
  {i \in DOMAIN boxes : ~boxes[i].isUnlocked /\ boxes'[i].isUnlocked}

Pending == {i \in DOMAIN boxes : boxes[i].isUnlocked /\ ~boxes[i].isCompleted}

----------------------------------------------------------------------------
(* C1: every correct answer pays the base reward of the open question's     *)
(* difficulty, times 1.5 rounded down when the attempt counter was 0, and   *)
(* unmultiplied when it was 1 or 2; the level-up bonus comes on top.        *)
C1_CorrectAnswerReward ==
  [][\A a \in AnswerIndexes :
       (Submits(a) /\ IsCorrect(a) /\ gameState.attempts \in 0 .. 2) =>
          LET d == gameState.currentQuestion.difficulty
              first == gameState.attempts = 0
          IN  /\ player.xp' - player.xp = IF first THEN FirstTryXP(d) ELSE BaseXP(d)
              /\ player.coins' - player.coins =
                   (IF first THEN FirstTryCoins(d) ELSE BaseCoins(d)) + LevelUpBonus]_vars

\* The first easy box was answered correctly at the first attempt.
C1_Witness ==
  /\ QuestionOpen /\ OpenBox = 1
  /\ gameState.attempts = 1
  /\ player.completedBoxes = <<1>>
  /\ player.coins = 75 /\ player.xp = 112

(* C2: a wrong answer given when the attempt counter was 2 completes the    *)
(* open question's box and pays 30% of the base reward, rounded down.       *)
C2_ExhaustedAttemptsReward ==
  [][\A a \in AnswerIndexes :
       (Submits(a) /\ ~IsCorrect(a) /\ gameState.attempts = 2) =>
          LET d == gameState.currentQuestion.difficulty
          IN  /\ boxes'[OpenBox].isCompleted
              /\ player.xp' - player.xp = ConsolationXP(d)
              /\ player.coins' - player.coins = ConsolationCoins(d) + LevelUpBonus]_vars

\* The first easy box was closed by a third wrong answer.
C2_Witness ==
  /\ QuestionOpen /\ OpenBox = 1
  /\ gameState.attempts = 3
  /\ boxes[1].isCompleted
  /\ player.completedBoxes = <<1>>
  /\ player.coins = 15 /\ player.xp = 22

(* C3: a wrong answer on an open, not yet completed box with the attempt    *)
(* counter at 0 or 1 changes the attempt counter (+1) and nothing else of   *)
(* the game state.                                                          *)
C3_WrongAnswerOnlyCounts ==
  [][\A a \in AnswerIndexes :
       (/\ Submits(a) /\ ~IsCorrect(a)
        /\ ~boxes[OpenBox].isCompleted
        /\ gameState.attempts \in 0 .. 1) =>
          gameState' = [gameState EXCEPT !.attempts = gameState.attempts + 1]]_vars

\* Two wrong answers were given on the first box, which is still open.
C3_Witness ==
  /\ QuestionOpen /\ OpenBox = 1 /\ gameState.isQuestionModalOpen
  /\ gameState.attempts = 2
  /\ ~boxes[1].isCompleted
  /\ player.completedBoxes = <<>> /\ player.coins = 0 /\ player.xp = 0

(* C4: the identifiers in player.completedBoxes are exactly the identifiers *)
(* of the boxes with isCompleted = true, in every reachable state.          *)
C4_CompletedBoxesMatchFlags ==
  {player.completedBoxes[k] : k \in 1 .. Len(player.completedBoxes)}
    = {boxes[i].id : i \in {j \in DOMAIN boxes : boxes[j].isCompleted}}

\* Every box of the game has been completed.
C4_Witness ==
  /\ \A i \in DOMAIN boxes : boxes[i].isCompleted
  /\ Len(player.completedBoxes) = Len(boxes)

(* C5: while some box is not completed, exactly one box is unlocked and not *)
(* completed.                                                               *)
C5_ExactlyOnePending ==
  (\E i \in DOMAIN boxes : ~boxes[i].isCompleted) => Cardinality(Pending) = 1

(* C6: a terminal answer (correct, or given when the counter was 2 or more) *)
(* unlocks at most one box, and a non-terminal answer on a not yet          *)
(* completed box changes isUnlocked on no box.                              *)
C6_AtMostOneUnlock ==
  [][\A a \in AnswerIndexes :
       Submits(a) =>
          IF IsCorrect(a) \/ gameState.attempts >= 2
          THEN Cardinality(NewlyUnlocked) <= 1
          ELSE ~boxes[OpenBox].isCompleted =>
                 \A i \in DOMAIN boxes : boxes'[i].isUnlocked = boxes[i].isUnlocked]_vars

\* The terminal answer on the first box has unlocked the second box alone.
C6_Witness ==
  /\ QuestionOpen /\ OpenBox = 1
  /\ boxes[1].isCompleted
  /\ boxes[2].isUnlocked
  /\ \A i \in DOMAIN boxes : i > 2 => ~boxes[i].isUnlocked

\* The tier after d: easy -> medium, medium -> hard, none after hard.
NextTier(d) == CASE d = "easy" -> "medium" [] d = "medium" -> "hard" [] OTHER -> "none"

\* The first locked box behind box i that passes the tier test, 0 when none.
FirstLocked(i, tiers) ==
  FindIndex({j \in DOMAIN boxes :
               j > i /\ ~boxes[j].isUnlocked /\ boxes[j].question.difficulty \in tiers})

\* The box the priority order picks behind box i of difficulty d.
PriorityChoice(i, d) ==
  IF FirstLocked(i, {d}) # 0 THEN FirstLocked(i, {d})
  ELSE IF FirstLocked(i, {NextTier(d)}) # 0 THEN FirstLocked(i, {NextTier(d)})
  ELSE FirstLocked(i, Difficulties)

(* C7: a terminal answer on box i of difficulty d unlocks the first locked  *)
(* box behind i of difficulty d; failing that, the first of the next tier;  *)
(* failing that, the first locked box of any difficulty; and none when no   *)
(* locked box is behind i.  Checked for the box list createTreasureBoxes    *)
(* makes of every question list.                                            *)
C7_UnlockPriority ==
  [][\A a \in AnswerIndexes :
       (Submits(a) /\ (IsCorrect(a) \/ gameState.attempts >= 2)) =>
          LET choice == PriorityChoice(OpenBox, gameState.currentQuestion.difficulty)
          IN  NewlyUnlocked = IF choice = 0 THEN {} ELSE {choice}]_vars

\* An easy box was completed with only a hard box behind it, which the
\* fallback unlocked.
C7_Witness ==
  /\ Len(boxes) = 3
  /\ boxes[2].question.difficulty = "easy" /\ boxes[2].isCompleted
  /\ boxes[3].question.difficulty = "hard" /\ boxes[3].isUnlocked
  /\ player.completedBoxes = <<1, 2>>

(* C8: while the question of a completed box is open, no step increases     *)
(* coins or xp: a completed box pays no second time.                        *)
C8_NoRewardAfterCompletion ==
  [][(QuestionOpen /\ boxes[OpenBox].isCompleted) =>
        (player.coins' <= player.coins /\ player.xp' <= player.xp)]_vars

(* C9: player.completedBoxes never holds the same identifier twice.         *)
C9_NoDuplicateCompleted ==
  \A j, k \in 1 .. Len(player.completedBoxes) :
     player.completedBoxes[j] = player.completedBoxes[k] => j = k

(* C10: no step but a reset (resetGame, or a reload of the page) turns a    *)
(* box's isCompleted from true to false: move, interact, submitAnswer,      *)
(* closeQuestion, toggleHints and the startup effects leave a completed box *)
(* completed.                                                               *)
C10_CompletedStaysCompleted ==
  [][\/ \A i \in DOMAIN boxes : boxes[i].isCompleted => boxes'[i].isCompleted
     \/ ResetGame
     \/ \E elapsed \in {0, TickHours} : Reload(elapsed)]_vars

\* The first box was completed, and then its question was closed, the
\* second box opened, the hints switched off and the player moved.
C10_Witness ==
  /\ boxes[1].isCompleted
  /\ QuestionOpen /\ OpenBox = 2
  /\ ~gameState.hintsEnabled
  /\ player.x = MaxCoord

----------------------------------------------------------------------------
(* Levels *)

\* The level the specification assigns to an amount of experience.
LevelOf(xp) == IF xp < 500 THEN 1 ELSE ((xp - 500) \div 750) + 2

(* C11: in every reachable state player.level is the level of player.xp:   *)
(* 1 below 500 xp, floor((xp - 500) / 750) + 2 from 500 on.  Answers, the   *)
(* restore from a save, reset and reload all keep the two in step.          *)
C11_LevelFollowsXP ==
  player.level = LevelOf(player.xp)

\* In a session begun by a reload of the page, the player has reached
\* level 3 with answers to the open questions.
C11_Witness ==
  /\ pc = "run"
  /\ clock = TickHours
  /\ player.level = 3
  /\ player.xp >= 1250

\* The reward of an answer `a` to the open question, before any bonus.
RewardCoins(a) ==
  LET d == gameState.currentQuestion.difficulty IN
  IF IsCorrect(a)
  THEN IF gameState.attempts = 0 THEN FirstTryCoins(d) ELSE BaseCoins(d)
  ELSE IF gameState.attempts + 1 >= 3 THEN ConsolationCoins(d) ELSE 0

(* C12: every answer to an open question increases the coins by exactly    *)
(* the reward of the answer, plus a hundred times the new level when the    *)
(* level of the new xp exceeds the level before; an answer that takes xp    *)
(* from below 500 into 500..1249 takes the level from 1 to 2 and adds 200.  *)
C12_LevelUpBonus ==
  [][\A a \in AnswerIndexes : Submits(a) =>
        /\ player.coins' = player.coins + RewardCoins(a)
                            + (IF LevelOf(player.xp') > player.level
                               THEN LevelOf(player.xp') * 100 ELSE 0)
        /\ (player.xp < 500 /\ player.xp' >= 500 /\ player.xp' < 1250) =>
              /\ player.level = 1 /\ player.level' = 2
              /\ player.coins' = player.coins + RewardCoins(a) + 200]_vars

\* Four easy boxes and the first medium box, each answered at the first
\* try: 673 xp, level 2, and 200 coins on top of the five rewards.
C12_Witness ==
  /\ Len(player.completedBoxes) = 5
  /\ player.xp = (4 * FirstTryXP("easy")) + FirstTryXP("medium")
  /\ player.level = 2
  /\ player.coins = (4 * FirstTryCoins("easy")) + FirstTryCoins("medium") + 200

----------------------------------------------------------------------------
(* calculateLevel on its own: every amount of experience up to MaxXP, and  *)
(* every gain an answer can bring                                           *)

MaxXP == 2100

\* A player with `xp` experience and the level calculateLevel gives it.
playerWithXP(xp) ==
  [INITIAL_PLAYER EXCEPT !.xp = xp, !.level = calculateLevel(xp)]

\* The amounts of xp an answer can earn, and a single point.
XPGains ==
  {1} \cup ({xpEarned(d, c, n) :
                d \in Difficulties, c \in BOOLEAN, n \in 1 .. maxAttempts} \ {0})

InitLevel ==
  /\ \E xp \in 0 .. MaxXP :
        gameState = [InitialGameState EXCEPT !.player = playerWithXP(xp)]
  /\ storage = <<>>
  /\ clock = 0
  /\ pc = "level"
  /\ startupEntry = <<>>
  /\ OutsideIdle

\* const newXP = prev.player.xp + xpEarned; const newLevel = calculateLevel(newXP)
GainXP(gain) ==
  /\ pc = "level"
  /\ player.xp + gain <= MaxXP
  /\ gameState' = [gameState EXCEPT !.player = playerWithXP(player.xp + gain)]
  /\ UNCHANGED <<storage, clock, pc, startupEntry>>
  /\ UNCHANGED outside

NextLevel == \E gain \in XPGains : GainXP(gain)

SpecLevel == InitLevel /\ [][NextLevel]_vars

(* C13: calculateLevel never decreases as xp grows from 0, and gives       *)
(* level 1 at 0 and at 499, level 2 at 500 and at 1249, level 3 at 1250    *)
(* and level 4 at 2000.                                                     *)
C13_LevelMonotone ==
  /\ \A xp \in 0 .. player.xp : calculateLevel(xp) <= player.level
  /\ player.xp \in {0, 499} => player.level = 1
  /\ player.xp \in {500, 1249} => player.level = 2
  /\ player.xp = 1250 => player.level = 3
  /\ player.xp = 2000 => player.level = 4

\* The level of 2000 xp has been computed.
C13_Witness ==
  /\ pc = "level"
  /\ player.xp = 2000
  /\ player.level = 4

----------------------------------------------------------------------------
(* The attempt counter and the events that change nothing *)

\* What interact, submitAnswer and closeQuestion do to the counter, and
\* what move and toggleHints, an interact that opens nothing and an answer
\* to no question leave of it, in the current state.
AttemptsCounted ==
  /\ \A boxId \in BoxIds :
        interactResult(gameState, boxId).attempts =
           IF canInteract(gameState, boxId) THEN 0 ELSE gameState.attempts
  /\ \A a \in AnswerIndexes :
        answerResult(gameState, a).attempts =
           IF QuestionOpen THEN gameState.attempts + 1 ELSE gameState.attempts
  /\ closeResult(gameState).attempts = 0
  /\ \A target \in MoveTargets :
        movePlayerResult(gameState, target[1], target[2]).attempts = gameState.attempts
  /\ toggleHintsResult(gameState).attempts = gameState.attempts

(* C14 as stated: attempts is 0 right after a successful interact, grows   *)
(* by exactly 1 with every answer given while a question is open, is 0     *)
(* right after closeQuestion, and no other event (move, toggleHints,       *)
(* reset, an interact or an answer that is refused) changes it.            *)
C14_OnlyThreeEventsChangeAttempts ==
  /\ AttemptsCounted
  /\ pc = "run" => resetResult.attempts = gameState.attempts

(* C14, amended: attempts is 0 right after a successful interact, grows by *)
(* exactly 1 with every answer given while a question is open, is 0 right  *)
(* after closeQuestion and right after reset, and no other event changes   *)
(* it.                                                                      *)
C14_AttemptCounter ==
  /\ AttemptsCounted
  /\ pc = "run" => resetResult.attempts = 0

\* The first box is completed; the second was opened, which set the counter
\* back to 0, and has been answered wrongly twice.
C14_Witness ==
  /\ boxes[1].isCompleted
  /\ QuestionOpen /\ OpenBox = 2 /\ ~boxes[2].isCompleted
  /\ gameState.attempts = 2

(* C15: interact on a locked box, on a completed box or with an identifier *)
(* that matches no box leaves the whole game state as it was: modal,       *)
(* currentQuestion, attempts and everything else.                          *)
C15_InteractNoOp ==
  \A boxId \in BoxIds :
     LET matching == {i \in DOMAIN boxes : boxes[i].id = boxId} IN
     (\/ matching = {}
      \/ \E i \in matching : ~boxes[i].isUnlocked \/ boxes[i].isCompleted)
       => interactResult(gameState, boxId) = gameState

\* The modal is closed; box 1 is completed, box 2 pending, box 3 locked, and
\* no box has the identifier 10: interact(1), interact(3) and interact(10)
\* are the three cases.
C15_Witness ==
  /\ pc = "run"
  /\ ~QuestionOpen
  /\ boxes[1].isCompleted
  /\ boxes[2].isUnlocked /\ ~boxes[2].isCompleted
  /\ ~boxes[3].isUnlocked
  /\ \A i \in DOMAIN boxes : boxes[i].id # 10

(* C16: submitAnswer while no question is open leaves the whole game state *)
(* as it was: coins, xp, level, attempts, completedBoxes, the box flags     *)
(* and everything else.                                                     *)
C16_AnswerWithoutQuestionNoOp ==
  ~QuestionOpen =>
     \A a \in AnswerIndexes : answerResult(gameState, a) = gameState

\* Two boxes are completed and the modal has been closed.
C16_Witness ==
  /\ pc = "run"
  /\ ~QuestionOpen /\ ~gameState.isQuestionModalOpen
  /\ Len(player.completedBoxes) = 2
  /\ player.coins > 0

----------------------------------------------------------------------------
(* Persistence *)

\* The page load found a save of an earlier session, less than 24 hours old.
EarlierSaveFresh ==
  /\ startupEntry # <<>>
  /\ {"player", "completedBoxes", "unlockedBoxes", "level", "timestamp"}
        \subseteq DOMAIN startupEntry[1]
  /\ clock - startupEntry[1].timestamp < 24

(* C17: on startup with a save of an earlier session that is less than 24  *)
(* hours old, the save effect that runs first leaves that save in place,   *)
(* and the state after the load effect has the saved player's coins, xp,   *)
(* level and completedBoxes, and every box completed and unlocked exactly  *)
(* when its id is in the saved completed and unlocked lists.                *)
C17_RestoreOnStartup ==
  [][/\ (EarlierSaveFresh /\ SaveEffectOnMount) => storage' = startupEntry
     /\ (EarlierSaveFresh /\ LoadEffect) =>
          LET saved == startupEntry[1] IN
          /\ player.coins' = saved.player.coins
          /\ player.xp' = saved.player.xp
          /\ player.level' = saved.player.level
          /\ player.completedBoxes' = saved.player.completedBoxes
          /\ \A i \in DOMAIN boxes' :
                /\ boxes'[i].isCompleted = Includes(saved.completedBoxes, boxes'[i].id)
                /\ boxes'[i].isUnlocked = Includes(saved.unlockedBoxes, boxes'[i].id)]_vars

\* The identifiers in a list of the persisted record, as a set, provided
\* the list names none twice.
IdsOf(list) == {list[k] : k \in DOMAIN list}
NoRepeats(list) == \A j, k \in DOMAIN list : list[j] = list[k] => j = k

(* C18: once the save effect has run, after the first render and after     *)
(* every change of the game state, the persisted record reflects the       *)
(* current state: its player is the current player, its completed list the *)
(* ids of the boxes with isCompleted, its unlocked list the ids of the     *)
(* boxes with isUnlocked, its level player.level.                           *)
C18_SaveReflectsState ==
  pc \in {"load", "run"} =>
    /\ storage # <<>>
    /\ storage[1].player = player
    /\ NoRepeats(storage[1].completedBoxes)
    /\ IdsOf(storage[1].completedBoxes) =
          {boxes[i].id : i \in {j \in DOMAIN boxes : boxes[j].isCompleted}}
    /\ NoRepeats(storage[1].unlockedBoxes)
    /\ IdsOf(storage[1].unlockedBoxes) =
          {boxes[i].id : i \in {j \in DOMAIN boxes : boxes[j].isUnlocked}}
    /\ storage[1].level = player.level

\* Two boxes are completed and the third is unlocked, the player is at
\* level 1 with the rewards of two answers, and the record says so.
C18_Witness ==
  /\ pc = "run"
  /\ storage # <<>>
  /\ storage[1].completedBoxes = <<1, 2>>
  /\ storage[1].unlockedBoxes = <<1, 2, 3>>
  /\ storage[1].player.coins = 2 * FirstTryCoins("easy")
  /\ player.coins = 2 * FirstTryCoins("easy")

----------------------------------------------------------------------------
(* Reset *)

TierRank(d) == CASE d = "easy" -> 1 [] d = "medium" -> 2 [] d = "hard" -> 3

\* How many of the boxes hold a question of tier d.
TierCount(bs, d) == Cardinality({i \in DOMAIN bs : bs[i].question.difficulty = d})

(* C19: right after reset, from whatever state, the player has the initial *)
(* defaults (x 0, y 0, coins 0, xp 0, level 1, completedBoxes empty), the  *)
(* modal is closed with no current question and attempts 0, hints are on,  *)
(* and there are nine boxes, 4 easy, 3 medium and 2 hard, in ascending     *)
(* difficulty order, only the first unlocked and none completed.           *)
C19_ResetRestoresDefaults ==
  [][ResetGame =>
       /\ player' = [x |-> 0, y |-> 0, coins |-> 0, xp |-> 0, level |-> 1,
                     completedBoxes |-> <<>>]
       /\ ~gameState.isQuestionModalOpen'
       /\ gameState.currentQuestion' = NullQuestion
       /\ gameState.attempts' = 0
       /\ gameState.hintsEnabled'
       /\ Len(boxes') = 9
       /\ TierCount(boxes', "easy") = 4
       /\ TierCount(boxes', "medium") = 3
       /\ TierCount(boxes', "hard") = 2
       /\ \A i, j \in DOMAIN boxes' :
             i < j => TierRank(boxes'[i].question.difficulty)
                        <= TierRank(boxes'[j].question.difficulty)
       /\ \A i \in DOMAIN boxes' :
             /\ boxes'[i].isUnlocked = (i = 1)
             /\ ~boxes'[i].isCompleted]_vars

\* A state reset is called in: five boxes completed, level 2, the sixth
\* question open and answered wrongly once, hints off, the player away from
\* the origin.
C19_Witness ==
  /\ pc = "run"
  /\ Len(player.completedBoxes) = 5
  /\ player.level = 2
  /\ QuestionOpen /\ OpenBox = 6
  /\ gameState.attempts = 1
  /\ ~gameState.hintsEnabled
  /\ player.x = MaxCoord

(* C20: once reset has been processed, state update and effects, the store *)
(* holds no entry under the save key.                                       *)
C20_ResetClearsSave ==
  [][ResetGame => storage' = <<>>]_vars

----------------------------------------------------------------------------
(* Startup on an entry that is no usable save *)

\* The page load found no entry, or one that is no JSON, null, lacks a field
\* of a save, has a level that is not the level of its xp, or is 24 hours
\* old or older.
UnusableStartupEntry ==
  \/ startupEntry = <<>>
  \/ LET entry == startupEntry[1] IN
       \/ ~({"player", "completedBoxes", "unlockedBoxes", "level", "timestamp"}
              \subseteq DOMAIN entry)
       \/ entry.player.level # LevelOf(entry.player.xp)
       \/ clock - entry.timestamp >= 24

\* The default initial state, written out.
IsDefaultState(state) ==
  /\ state.player = [x |-> 0, y |-> 0, coins |-> 0, xp |-> 0, level |-> 1,
                      completedBoxes |-> <<>>]
  /\ \A i \in DOMAIN state.treasureBoxes :
        /\ state.treasureBoxes[i].isUnlocked = (i = 1)
        /\ ~state.treasureBoxes[i].isCompleted
  /\ ~state.isQuestionModalOpen
  /\ state.currentQuestion = NullQuestion
  /\ state.attempts = 0
  /\ state.hintsEnabled

(* C21: when the entry found at startup is missing, no JSON, null, without *)
(* timestamp or lists, a save whose level does not fit its xp, or 24 hours *)
(* old or older, the load effect raises no error and leaves the default    *)
(* initial state: player defaults, only the first box unlocked, none       *)
(* completed.                                                               *)
C21_UnusableEntryGivesDefaults ==
  [][(UnusableStartupEntry /\ LoadEffect) =>
        /\ loadOutcome(gameState, storage, clock).error = "none"
        /\ pc' = "run"
        /\ IsDefaultState(gameState')]_vars

\* The load effect is about to run in a session whose page load found a
\* fresh entry without the two lists.
C21_Witness ==
  /\ pc = "load"
  /\ startupEntry # <<>>
  /\ "timestamp" \in DOMAIN startupEntry[1]
  /\ "completedBoxes" \notin DOMAIN startupEntry[1]

----------------------------------------------------------------------------
(* The placement loop of createTreasureBoxes, one draw at a time           *)

\* Place easier treasures closer to spawn, harder ones further away.
minDistance(difficulty) ==
  CASE difficulty = "easy" -> 25 [] difficulty = "medium" -> 60 [] difficulty = "hard" -> 100
maxDistance(difficulty) ==
  CASE difficulty = "easy" -> 80 [] difficulty = "medium" -> 140 [] difficulty = "hard" -> 180

\* The draws of Math.random() that are followed: three directions, and the
\* inner and the outer edge of the band (the coordinates stay integers).
SampleDirections == {<<1, 0>>, <<0, 1>>, <<-1, 0>>}
Candidates(difficulty) ==
  {<<dir[1] * distance, dir[2] * distance>> :
      dir \in SampleDirections,
      distance \in {minDistance(difficulty), maxDistance(difficulty)}}

\* Math.pow(x - pos.x, 2) + Math.pow(y - pos.y, 2)
DistanceSquared(p, q) ==
  ((p[1] - q[1]) * (p[1] - q[1])) + ((p[2] - q[2]) * (p[2] - q[2]))

\* Variant: only the position placed last is compared.
tooClose_lastOnly(candidate, placed) ==
  /\ placed # <<>>
  /\ DistanceSquared(candidate, placed[Len(placed)]) < 30 * 30

\* positions.some(pos => Math.sqrt(...) < 30)
tooClose(candidate, placed) ==
  \E k \in DOMAIN placed : DistanceSquared(candidate, placed[k]) < 30 * 30

\* The call is made on the default questions and on every short list.
InitPlacement ==
  /\ \E questions \in {allQuestions} \cup {QuestionsOf(tiers) : tiers \in QuestionLists} :
        gameState = GameStateWith(createTreasureBoxes(questions))
  /\ storage = <<>>
  /\ clock = 0
  /\ pc = "place"
  /\ startupEntry = <<>>
  /\ OutsideIdle

\* One pass of the do-while loop for the box after the placed ones: a
\* candidate is drawn and, unless it is too close, pushed.
PlaceBox(candidate) ==
  /\ pc = "place"
  /\ Len(positions) < Len(gameState.treasureBoxes)
  /\ candidate \in
        Candidates(gameState.treasureBoxes[Len(positions) + 1].question.difficulty)
  /\ positions' = IF tooClose(candidate, positions)
                   THEN positions
                   ELSE Append(positions, candidate)
  /\ UNCHANGED <<gameState, storage, clock, pc, startupEntry,
                 showExplanation, timers, canvas>>

NextPlacement ==
  \E difficulty \in Difficulties :
     \E candidate \in Candidates(difficulty) : PlaceBox(candidate)

SpecPlacement == InitPlacement /\ [][NextPlacement]_vars

\* The band of a tier, as the specification states it.
InBand(p, d) ==
  LET r2 == (p[1] * p[1]) + (p[2] * p[2]) IN
  CASE d = "easy"   -> 25 * 25 <= r2 /\ r2 <= 80 * 80
    [] d = "medium" -> 60 * 60 <= r2 /\ r2 <= 140 * 140
    [] d = "hard"   -> 100 * 100 <= r2 /\ r2 <= 180 * 180

\* The call runs on the default set of 4 easy, 3 medium and 2 hard questions.
DefaultSet ==
  /\ Len(boxes) = 9
  /\ \A i \in DOMAIN boxes :
        boxes[i].question.difficulty =
           IF i <= 4 THEN "easy" ELSE IF i <= 7 THEN "medium" ELSE "hard"

(* C22: the positions createTreasureBoxes has placed are pairwise at       *)
(* Euclidean distance 30 or more, each in the band of its tier; and for    *)
(* the default set of 4 easy, 3 medium and 2 hard questions, whenever a    *)
(* box remains to be placed some position of its band is at distance 30 or *)
(* more from every placed one, so the retry loop can end.                  *)
C22_PlacementSeparation ==
  /\ \A i, j \in DOMAIN positions :
        i # j => DistanceSquared(positions[i], positions[j]) >= 900
  /\ \A i \in DOMAIN positions :
        InBand(positions[i], boxes[i].question.difficulty)
  /\ (pc = "place" /\ DefaultSet /\ Len(positions) < 9) =>
        \E candidate \in Candidates(boxes[Len(positions) + 1].question.difficulty) :
           /\ InBand(candidate, boxes[Len(positions) + 1].question.difficulty)
           /\ \A k \in DOMAIN positions :
                 DistanceSquared(candidate, positions[k]) >= 900

\* All nine boxes of the default set are placed, an easy box and a medium
\* box on the same ray.
C22_Witness ==
  /\ DefaultSet
  /\ Len(positions) = 9
  /\ positions[1] = <<80, 0>>
  /\ positions[5] = <<140, 0>>

----------------------------------------------------------------------------
(* The coins stored on the boxes *)

\* The state with other values in the coins fields of the boxes.
WithStoredCoins(state, stored) ==
  [state EXCEPT !.treasureBoxes =
     [i \in DOMAIN state.treasureBoxes |->
        [state.treasureBoxes[i] EXCEPT !.coins = stored[i]]]]

\* Everything of a state but the coins fields of the boxes.
WithoutStoredCoins(state) ==
  WithStoredCoins(state, [i \in DOMAIN state.treasureBoxes |-> 0])

\* The event took `before` to `there`, left the boxes alone, and but for the
\* boxes `there` is `here`.
SameButBoxes(there, before, here) ==
  /\ there.treasureBoxes = before.treasureBoxes
  /\ here.treasureBoxes = gameState.treasureBoxes
  /\ [there EXCEPT !.treasureBoxes = <<>>] = [here EXCEPT !.treasureBoxes = <<>>]

\* A state that differs from the current one in the stored coins only, and
\* in those of every box: each box has the value of its successor, the last
\* that of the first.
OtherStoredCoins ==
  WithStoredCoins(gameState,
     [i \in DOMAIN boxes |-> boxes[(i % Len(boxes)) + 1].coins])

(* C23: the coins field of a box is the base of its tier (50, 100, 200)    *)
(* plus 25 times its 0-based index in the sorted order, and no event reads *)
(* it: from two states that differ only in the stored coins, every answer  *)
(* (and every other event) leads to states that again differ only in the   *)
(* stored coins, so the two runs keep the same player coins, xp and level. *)
C23_StoredCoinsNeverPaid ==
  /\ \A i \in DOMAIN boxes :
        boxes[i].coins = BaseCoins(boxes[i].question.difficulty) + (25 * (i - 1))
  /\ \A other \in {OtherStoredCoins} :
        /\ QuestionOpen =>
              \A a \in AnswerIndexes :
                 LET here == answerResult(gameState, a)
                     there == answerResult(other, a)
                 IN  /\ there.player = here.player
                     /\ WithoutStoredCoins(there) = WithoutStoredCoins(here)
        /\ \A boxId \in BoxIds :
              SameButBoxes(interactResult(other, boxId), other,
                           interactResult(gameState, boxId))
        /\ SameButBoxes(closeResult(other), other, closeResult(gameState))
        /\ SameButBoxes(toggleHintsResult(other), other,
                        toggleHintsResult(gameState))
        /\ \A target \in MoveTargets :
              SameButBoxes(movePlayerResult(other, target[1], target[2]), other,
                           movePlayerResult(gameState, target[1], target[2]))
        /\ saveData(other, clock) = saveData(gameState, clock)

\* The question of the seventh box (stored coins 250, base 100) is open for
\* its first answer.
C23_Witness ==
  /\ QuestionOpen /\ OpenBox = 7
  /\ gameState.attempts = 0
  /\ boxes[7].coins = 250
  /\ BaseCoins(boxes[7].question.difficulty) = 100

----------------------------------------------------------------------------
(* The question dialog (QuestionModal) and its timers                      *)

MaxTimers == 2
MaxDialogBoxes == 3

\* The dialog is rendered: isOpen and question.
DialogShown(state) ==
  state.isQuestionModalOpen /\ state.currentQuestion # NullQuestion

\* The dialog's effect on [isOpen, question]: when either changed and the
\* dialog is shown, the local state is set back.
dialogEffect(before, after, shown) ==
  IF /\ <<before.isQuestionModalOpen, before.currentQuestion>>
          # <<after.isQuestionModalOpen, after.currentQuestion>>
     /\ DialogShown(after)
  THEN FALSE
  ELSE shown

\* The callback handleSubmitAnswer gives setTimeout: the selected answer and
\* what the render of the click holds (question, attempts, and through
\* onAnswer the hook's currentQuestion and attempts of that render).
\* (closedSince is history: the modal has been closed since the click.)
answerTimer(state, answerIndex) ==
  [kind |-> "answer", answerIndex |-> answerIndex,
   question |-> state.currentQuestion, attempts |-> state.attempts,
   closedSince |-> FALSE]

\* setTimeout(onClose, 2500), started by the callback of an answer timer.
closeTimer(timer) ==
  [kind |-> "close", answerIndex |-> timer.answerIndex,
   question |-> timer.question, attempts |-> timer.attempts,
   closedSince |-> FALSE]

\* History: closeQuestionModal has run while these timers were pending.
closedMeanwhile(pending) ==
  [k \in DOMAIN pending |-> [pending[k] EXCEPT !.closedSince = TRUE]]

\* const correct = selectedAnswer === question?.correctAnswer
timerCorrect(timer) == timer.answerIndex = timer.question.correctAnswer

\* if (correct || attempts >= 2) setTimeout(onClose, 2500)
timerClosesDialog(timer) ==
  timerCorrect(timer) \/ timer.attempts >= 2

\* onAnswer(selectedAnswer) when the timer fires: the answerQuestion of the
\* render of the click, whose updater React applies to the state of now.
deliverResult(state, timer) ==
  answerUpdater(state, timerCorrect(timer), timer.attempts + 1)

\* The dialog's local state and timers begin with the page; the game is one
\* over the first MaxDialogBoxes questions.
InitDialog ==
  /\ gameState = GameStateWith(createTreasureBoxes(
                     SubSeq(allQuestions, 1, MaxDialogBoxes)))
  /\ storage = <<>>
  /\ clock = 0
  /\ pc = "mount"
  /\ startupEntry = <<>>
  /\ OutsideIdle

\* The player opens a box while the dialog component is followed.
DialogInteract(boxId) ==
  /\ pc = "run"
  /\ canInteract(gameState, boxId)
  /\ gameState' = interactResult(gameState, boxId)
  /\ storage' = saveEffect(gameState', clock)
  /\ showExplanation' = dialogEffect(gameState, gameState', showExplanation)
  /\ UNCHANGED <<clock, pc, startupEntry, positions, timers, canvas>>

\* Click on Submit Answer with `answerIndex` selected.
SubmitAnswer(answerIndex) ==
  /\ pc = "run"
  /\ DialogShown(gameState)
  /\ ~showExplanation
  /\ Len(timers) < MaxTimers
  /\ showExplanation' = TRUE
  /\ timers' = Append(timers, answerTimer(gameState, answerIndex))
  /\ UNCHANGED <<gameState, storage, clock, pc, startupEntry, positions, canvas>>

\* The first timer fires: the answer is handed to the hook; then the
\* closing timer is started or the dialog made ready for the next answer.
DeliverAnswer ==
  /\ pc = "run"
  /\ timers # <<>>
  /\ Head(timers).kind = "answer"
  /\ gameState' = deliverResult(gameState, Head(timers))
  /\ storage' = saveEffect(gameState', clock)
  /\ IF timerClosesDialog(Head(timers))
     THEN /\ timers' = Append(Tail(timers), closeTimer(Head(timers)))
          /\ UNCHANGED showExplanation
     ELSE /\ timers' = Tail(timers)
          /\ showExplanation' = FALSE
  /\ UNCHANGED <<clock, pc, startupEntry, positions, canvas>>

\* The second timer fires: onClose.
TimedClose ==
  /\ pc = "run"
  /\ timers # <<>>
  /\ Head(timers).kind = "close"
  /\ gameState' = closeResult(gameState)
  /\ storage' = saveEffect(gameState', clock)
  /\ timers' = closedMeanwhile(Tail(timers))
  /\ UNCHANGED <<clock, pc, startupEntry, positions, showExplanation, canvas>>

\* Click on the X of the dialog.
CloseButton ==
  /\ pc = "run"
  /\ DialogShown(gameState)
  /\ gameState' = closeResult(gameState)
  /\ storage' = saveEffect(gameState', clock)
  /\ timers' = closedMeanwhile(timers)
  /\ UNCHANGED <<clock, pc, startupEntry, positions, showExplanation, canvas>>

NextDialog ==
  \/ SaveEffectOnMount
  \/ LoadEffect
  \/ \E boxId \in BoxIds : DialogInteract(boxId)
  \/ \E answerIndex \in AnswerIndexes : SubmitAnswer(answerIndex)
  \/ DeliverAnswer
  \/ TimedClose
  \/ CloseButton

SpecDialog == InitDialog /\ [][NextDialog]_vars

\* The answer a timer carries is the right one for the question it was
\* given to.
IsCorrectFor(timer) == timer.answerIndex = timer.question.correctAnswer

\* The answer timer about to fire was started in the dialog as it is now:
\* the same question is shown, with the attempts counted then.
Undisturbed ==
  /\ DialogShown(gameState)
  /\ gameState.currentQuestion = Head(timers).question
  /\ gameState.attempts = Head(timers).attempts

\* An answer given through the dialog reaches the hook when its timer fires.
AnswerIsDelivered ==
  (DeliverAnswer /\ Undisturbed) =>
     gameState' = answerResult(gameState, Head(timers).answerIndex)

\* A terminal answer (correct, or given with 2 attempts shown) starts the
\* closing timer, and the closing timer leaves the modal closed, no question
\* current and attempts 0.
TerminalAnswerCloses ==
  /\ (DeliverAnswer /\ (IsCorrectFor(Head(timers)) \/ Head(timers).attempts = 2)) =>
        /\ Len(timers') = Len(timers)
        /\ timers'[Len(timers')].kind = "close"
  /\ TimedClose =>
        /\ ~gameState.isQuestionModalOpen'
        /\ gameState.currentQuestion' = NullQuestion
        /\ gameState.attempts' = 0

\* A wrong answer with attempts remaining starts no closing timer and the
\* dialog takes the next answer.
WrongAnswerKeepsDialog ==
  (DeliverAnswer /\ ~IsCorrectFor(Head(timers)) /\ Head(timers).attempts < 2) =>
     /\ timers' = Tail(timers)
     /\ Undisturbed => (DialogShown(gameState') /\ ~showExplanation')

\* The question shown has had a wrong answer with attempts remaining, counted
\* already or still on display, and no terminal one.
WrongAnswerGiven ==
  /\ DialogShown(gameState)
  /\ ~boxes[OpenBox].isCompleted
  /\ \/ gameState.attempts \in 1 .. 2
     \/ \E k \in DOMAIN timers :
           /\ timers[k].kind = "answer"
           /\ timers[k].question = gameState.currentQuestion
           /\ ~IsCorrectFor(timers[k])
           /\ timers[k].attempts < 2

\* No timer closes the dialog of such a question.
TimerClosesOnlyAnswered ==
  ~(TimedClose /\ WrongAnswerGiven)

(* C24: an answer submitted through the dialog reaches the hook when the   *)
(* display delay is over; a terminal one (correct, or the third) has the   *)
(* dialog closed by the second timer, modal closed, no current question,   *)
(* attempts 0; a wrong one with attempts remaining leaves the dialog open  *)
(* for the next answer, and no timer closes the dialog of a question that  *)
(* has had a wrong answer and no terminal one.                              *)
C24_DialogTimers ==
  [][/\ AnswerIsDelivered
     /\ TerminalAnswerCloses
     /\ WrongAnswerKeepsDialog
     /\ TimerClosesOnlyAnswered]_vars

----------------------------------------------------------------------------
(* Attempts across a close and a second opening *)

\* The open question has had a wrong answer and is still to be completed.
WrongAnswerCounted ==
  /\ pc = "run"
  /\ QuestionOpen
  /\ ~boxes[OpenBox].isCompleted
  /\ gameState.attempts >= 1

\* The state after closeQuestion and interact on the box that was open.
ClosedAndReopened ==
  interactResult(closeResult(gameState), boxes[OpenBox].id)

(* C25: the first-attempt bonus is paid for a box only when no wrong       *)
(* answer was given for it before: after wrong answers, a close and a      *)
(* second opening of the same box, the correct answer earns the base       *)
(* reward, not 1.5 times it; and a box is completed by its third answer at *)
(* the latest, so after two wrong answers, a close and a second opening,   *)
(* the next answer completes it whatever it is.                            *)
C25_NoBonusAfterWrongAnswer ==
  WrongAnswerCounted =>
    LET d == gameState.currentQuestion.difficulty
        reopened == ClosedAndReopened
        right == answerResult(reopened, gameState.currentQuestion.correctAnswer)
    IN  /\ reopened.currentQuestion = gameState.currentQuestion
        /\ right.player.xp = player.xp + BaseXP(d)
        /\ right.player.coins =
              player.coins + BaseCoins(d)
                + (IF LevelOf(right.player.xp) > player.level
                   THEN LevelOf(right.player.xp) * 100 ELSE 0)
        /\ gameState.attempts = 2 =>
              \A a \in AnswerIndexes :
                 answerResult(reopened, a).treasureBoxes[OpenBox].isCompleted

----------------------------------------------------------------------------
(* Progress to the winning state *)

(* C26: while a box is not completed, some box is unlocked and not         *)
(* completed: interact opens it and the correct answer completes it; and   *)
(* when completedBoxes names every box, every box is completed.            *)
C26_NoDeadEnd ==
  /\ (pc = "run" /\ \E i \in DOMAIN boxes : ~boxes[i].isCompleted) =>
        \E i \in DOMAIN boxes :
           /\ boxes[i].isUnlocked /\ ~boxes[i].isCompleted
           /\ LET opened == interactResult(gameState, boxes[i].id) IN
                /\ opened.currentQuestion = boxes[i].question
                /\ answerResult(opened, boxes[i].question.correctAnswer)
                      .treasureBoxes[i].isCompleted
  /\ IdsOf(player.completedBoxes) = {boxes[i].id : i \in DOMAIN boxes} =>
        \A i \in DOMAIN boxes : boxes[i].isCompleted

\* The winning state, reached by nine terminal answers: every box is
\* completed and completedBoxes names each of the nine once.
C26_Witness ==
  /\ Len(boxes) = 9
  /\ \A i \in DOMAIN boxes : boxes[i].isCompleted
  /\ Len(player.completedBoxes) = 9
  /\ IdsOf(player.completedBoxes) = {boxes[i].id : i \in DOMAIN boxes}

----------------------------------------------------------------------------
(* The updater of answerQuestion as a function *)

(* C27: the updater answerQuestion gives setGameState does not change the  *)
(* previous state it is applied to, so a second application to that state  *)
(* returns the same next state, the same single box unlocked.              *)
C27_UpdaterIsPure ==
  (pc = "run" /\ QuestionOpen) =>
     \A a \in AnswerIndexes :
        LET isCorrect == IsCorrect(a)
            newAttempts == gameState.attempts + 1
            first == answerUpdater(gameState, isCorrect, newAttempts)
            prevAfter == prevAfterUpdater(gameState, isCorrect, newAttempts)
            second == answerUpdater(prevAfter, isCorrect, newAttempts)
        IN  /\ prevAfter = gameState
            /\ second = first

(* C28: an answer whose timer was started before closeQuestionModal ran is *)
(* not applied when the timer fires after the close: coins, xp, level,     *)
(* completedBoxes, the box flags and attempts stay as they are, also when  *)
(* interact has opened a box again in between.                             *)
C28_NoAnswerAfterClose ==
  [][(DeliverAnswer /\ Head(timers).closedSince) =>
        /\ player' = player
        /\ boxes' = boxes
        /\ gameState.attempts' = gameState.attempts]_vars

----------------------------------------------------------------------------
(* GameCanvas: the closure of the mount effect, the frames and the keys    *)

\* One placement createTreasureBoxes can return for the default set: every
\* position is a candidate of its tier and no two are closer than 30.
SampleLayout ==
  << <<25, 0>>, <<0, 25>>, <<-25, 0>>, <<80, 0>>,
     <<0, 60>>, <<-60, 0>>, <<0, 140>>,
     <<-100, 0>>, <<0, 100>> >>

\* useState<TreasureBox | null>(null)
NullTreasure == 0

\* What the effect with the dependency list [] closes over at the first
\* render: the treasureBoxes prop and the nearTreasure state of that render.
mountCanvas(treasureBoxes) ==
  [treasureBoxes |-> treasureBoxes,
   mountNearTreasure |-> NullTreasure,
   nearTreasure |-> NullTreasure,
   keyE |-> FALSE]

\* The proximity check of a frame: the closest box of the list closer than 8
\* that is unlocked and not completed (its id; NullTreasure when none).
nearCheck(treasureBoxes, x, z) ==
  LET near == {i \in DOMAIN treasureBoxes :
                 /\ DistanceSquared(<<x, z>>, SampleLayout[i]) < 8 * 8
                 /\ treasureBoxes[i].isUnlocked
                 /\ ~treasureBoxes[i].isCompleted}
  IN  IF near = {} THEN NullTreasure
      ELSE treasureBoxes[CHOOSE i \in near :
              \A j \in near :
                 DistanceSquared(<<x, z>>, SampleLayout[i])
                    <= DistanceSquared(<<x, z>>, SampleLayout[j])].id

\* if (event.key.toLowerCase() === 'e' && nearTreasure)
\*   onTreasureBoxInteract(nearTreasure.id)
\* with the nearTreasure of the handler's closure.
pressEResult(state, closure) ==
  IF closure.mountNearTreasure # NullTreasure
  THEN interactResult(state, closure.mountNearTreasure)
  ELSE state

\* The spots the player is followed to: the spawn, and the spots up to
\* MaxStep east or west of a box.
Stops ==
  {<<0, 0>>} \cup
  {<<SampleLayout[i][1] + dx, SampleLayout[i][2]>> :
      i \in DOMAIN SampleLayout, dx \in (0 - MaxStep) .. MaxStep}

\* The page is loaded with no saved game.
InitCanvas ==
  /\ gameState = InitialGameState
  /\ storage = <<>>
  /\ clock = 0
  /\ pc = "mount"
  /\ startupEntry = <<>>
  /\ positions = <<>>
  /\ showExplanation = FALSE
  /\ timers = <<>>
  /\ canvas = mountCanvas(InitialGameState.treasureBoxes)

\* The frames that take the player to (x, z): onPlayerMove and the
\* proximity check on the box list of the closure.
Animate(x, z) ==
  /\ pc = "run"
  /\ <<x, z>> # <<gameState.player.x, gameState.player.y>>
  /\ gameState' = movePlayerResult(gameState, x, z)
  /\ storage' = saveEffect(gameState', clock)
  /\ canvas' = [canvas EXCEPT !.nearTreasure = nearCheck(canvas.treasureBoxes, x, z)]
  /\ UNCHANGED <<clock, pc, startupEntry, positions, showExplanation, timers>>

\* keydown of E.
PressE ==
  /\ pc = "run"
  /\ gameState' = pressEResult(gameState, canvas)
  /\ storage' = IF gameState' = gameState THEN storage
                                          ELSE saveEffect(gameState', clock)
  /\ canvas' = [canvas EXCEPT !.keyE = TRUE]
  /\ UNCHANGED <<clock, pc, startupEntry, positions, showExplanation, timers>>

\* keyup of E.
ReleaseE ==
  /\ pc = "run"
  /\ canvas' = [canvas EXCEPT !.keyE = FALSE]
  /\ UNCHANGED <<gameState, storage, clock, pc, startupEntry, positions,
                 showExplanation, timers>>

NextCanvas ==
  \/ SaveEffectOnMount
  \/ LoadEffect
  \/ \E stop \in Stops : Animate(stop[1], stop[2])
  \/ PressE
  \/ ReleaseE

SpecCanvas == InitCanvas /\ [][NextCanvas]_vars

\* Box i of the current game is unlocked and not completed, and the player
\* stands within 8 units of it.
StandsAtOpenable(i) ==
  /\ boxes[i].isUnlocked
  /\ ~boxes[i].isCompleted
  /\ DistanceSquared(<<player.x, player.y>>, SampleLayout[i]) < 8 * 8

(* C29: whenever the player stands within 8 units of a box that is unlocked *)
(* and not completed in the current game state, pressing E calls           *)
(* interactWithTreasureBox with that box's id: the question of the box is  *)
(* opened.                                                                 *)
C29_PressEOpensNearBox ==
  pc = "run" =>
     \A i \in DOMAIN boxes :
        StandsAtOpenable(i) =>
           pressEResult(gameState, canvas) = interactResult(gameState, boxes[i].id)

\* The smallest xp at which calculateLevel returns the level, for the levels
\* that begin at MaxXP + 750 or earlier.
SmallestXPOfLevel ==
  [level \in 2 .. calculateLevel(MaxXP + 750) |->
     CHOOSE xp \in 0 .. (MaxXP + 750) :
        /\ calculateLevel(xp) = level
        /\ \A less \in 0 .. (xp - 1) : calculateLevel(less) # level]

(* C30: in every reachable state getProgressInfo returns                   *)
(* 0 <= xpProgress < xpNeeded, progressPercentage is below 100 and no      *)
(* Level Up overlay is shown; xpForNextLevel is the smallest xp at which    *)
(* calculateLevel returns currentLevel + 1.                                *)
C30_ProgressBelowFull ==
  LET info == getProgressInfo(gameState) IN
    /\ 0 <= info.xpProgress
    /\ info.xpProgress < info.xpNeeded
    /\ info.progressPercentage < 100
    /\ ~levelUpShown(gameState)
    /\ info.xpForNextLevel = SmallestXPOfLevel[info.currentLevel + 1]

\* A game that has reached level 3 or more with experience beyond the
\* start of the level.
C30_Witness ==
  /\ pc = "run"
  /\ player.level >= 3
  /\ getProgressInfo(gameState).xpProgress > 0

============================================================================
